---- MODULE Spec2Model ----
(***************************************************************************)
(* LayerScanner: the onion-site crawl engine (core/scanner.py), its link   *)
(* extractor (core/parser.py) and the command that drives it               *)
(* (layerscanner.py).                                                      *)
(*                                                                         *)
(* Text is modelled as a sequence of tokens.  A token is a run of          *)
(* characters that none of the string operations of the program ever cuts  *)
(* in two: "http:" and "https:" (a scheme with its colon), "/" (one        *)
(* slash), a host or path-segment name, "?q" (a query string with its      *)
(* question mark) and "#f" (a fragment with its hash).  The URL            *)
(* http://test.onion/a?q is <<"http:","/","/","test.onion","/","a","?q">>. *)
(***************************************************************************)
EXTENDS Integers, Sequences, FiniteSets, TLC

\* ------------------------------------------------------------------------
\* Bounds
\* ------------------------------------------------------------------------
MaxDepth == 2
MaxLinks == 2

\* ------------------------------------------------------------------------
\* Strings
\* ------------------------------------------------------------------------
SchemeToks == {"http:", "https:"}
QueryToks == {"?q"}
FragToks == {"#f"}
ParamToks == {";p"}
\* the tokens whose text ends with the characters ".onion"
OnionToks == {"test.onion", "other.onion", "x.onion"}

Last(s) == s[Len(s)]

Front(s) == SubSeq(s, 1, Len(s) - 1)

\* str.rstrip('/'): every trailing slash is removed
RECURSIVE RStripSlash(_)
RStripSlash(s) ==
    IF s # <<>> /\ Last(s) = "/" THEN RStripSlash(Front(s)) ELSE s

\* str.startswith("http://"), str.startswith("https://")
StartsWithScheme(s, tok) ==
    Len(s) >= 3 /\ s[1] = tok /\ s[2] = "/" /\ s[3] = "/"

\* str.endswith(".onion")
EndsWithOnion(s) == s # <<>> /\ Last(s) \in OnionToks

\* str.endswith(".onion/")
EndsWithOnionSlash(s) ==
    Len(s) >= 2 /\ Last(s) = "/" /\ s[Len(s) - 1] \in OnionToks

\* str.split('/')
RECURSIVE SplitFrom(_, _, _, _)
SplitFrom(s, i, cur, acc) ==
    IF i > Len(s) THEN Append(acc, cur)
    ELSE IF s[i] = "/" THEN SplitFrom(s, i + 1, <<>>, Append(acc, cur))
    ELSE SplitFrom(s, i + 1, Append(cur, s[i]), acc)

Split(s) == SplitFrom(s, 1, <<>>, <<>>)

\* '/'.join(segments)
RECURSIVE Join(_)
Join(segs) ==
    IF segs = <<>> THEN <<>>
    ELSE IF Len(segs) = 1 THEN segs[1]
    ELSE segs[1] \o <<"/">> \o Join(Tail(segs))

\* index of the last token of s, at or before i, that lies in set; 0 if none
RECURSIVE LastIn(_, _, _)
LastIn(s, i, set) ==
    IF i < 1 THEN 0
    ELSE IF s[i] \in set THEN i
    ELSE LastIn(s, i - 1, set)

\* index of the first token of s, at or after i, that lies in set; Len(s)+1 if none
RECURSIVE FirstIn(_, _, _)
FirstIn(s, i, set) ==
    IF i > Len(s) THEN Len(s) + 1
    ELSE IF s[i] \in set THEN i
    ELSE FirstIn(s, i + 1, set)

\* ------------------------------------------------------------------------
\* urllib.parse as the program uses it
\* ------------------------------------------------------------------------
\* urlparse(url) cuts the scheme, then '//' netloc, then '#' fragment, then
\* '?' query, then the ';' parameters of the last path segment; what is left
\* is the path.  Each step hands its cut to the next.
UrlParts(scheme, netloc, r5, i, query, fragment) ==
    [scheme |-> scheme, netloc |-> netloc, path |-> SubSeq(r5, 1, i - 1),
     params |-> SubSeq(r5, i, Len(r5)), query |-> query, fragment |-> fragment]

\* _splitparams: url.find(';', url.rfind('/'))
SplitParams(scheme, netloc, r5, query, fragment) ==
    UrlParts(scheme, netloc, r5,
             FirstIn(r5, LastIn(r5, Len(r5), {"/"}) + 1, ParamToks), query, fragment)

CutQuery(scheme, netloc, r4, fragment) ==
    SplitParams(scheme, netloc, SubSeq(r4, 1, FirstIn(r4, 1, QueryToks) - 1),
                SubSeq(r4, FirstIn(r4, 1, QueryToks), Len(r4)), fragment)

CutFragment(scheme, netloc, r3, f) ==
    CutQuery(scheme, netloc, SubSeq(r3, 1, f - 1), SubSeq(r3, f, Len(r3)))

AfterNetloc(scheme, netloc, r3) ==
    CutFragment(scheme, netloc, r3, FirstIn(r3, 1, FragToks))

CutNetloc(scheme, r2, netEnd) ==
    AfterNetloc(scheme, SubSeq(r2, 1, netEnd - 1), SubSeq(r2, netEnd, Len(r2)))

AfterScheme(scheme, r1) ==
    IF Len(r1) >= 2 /\ r1[1] = "/" /\ r1[2] = "/"
    THEN CutNetloc(scheme, SubSeq(r1, 3, Len(r1)),
                   FirstIn(SubSeq(r1, 3, Len(r1)), 1, {"/"} \cup QueryToks \cup FragToks))
    ELSE AfterNetloc(scheme, <<>>, r1)

urlparse(url) ==
    IF url # <<>> /\ url[1] \in SchemeToks
    THEN AfterScheme(url[1], Tail(url))
    ELSE AfterScheme("", url)

\* urlunparse(parts): the parameters go back behind the path, then urlunsplit
NetlocPath(path) ==
    IF path # <<>> /\ path[1] # "/" THEN <<"/">> \o path ELSE path

WithNetloc(p, path) ==
    IF p.netloc # <<>> \/ (p.scheme # "" /\ ~(Len(path) >= 2 /\ path[1] = "/" /\ path[2] = "/"))
    THEN <<"/", "/">> \o p.netloc \o NetlocPath(path) ELSE path

urlunparse(p) ==
    (IF p.scheme # "" THEN <<p.scheme>> ELSE <<>>)
        \o WithNetloc(p, p.path \o p.params) \o p.query \o p.fragment

\* the dot-segment loop of urljoin
RECURSIVE ResolveSegs(_, _)
ResolveSegs(segs, acc) ==
    IF segs = <<>> THEN acc
    ELSE IF segs[1] = <<"..">>
         THEN ResolveSegs(Tail(segs), IF acc = <<>> THEN acc ELSE Front(acc))
    ELSE IF segs[1] = <<".">> THEN ResolveSegs(Tail(segs), acc)
    ELSE ResolveSegs(Tail(segs), Append(acc, segs[1]))

\* segments[1:-1] = filter(None, segments[1:-1])
FilterMiddle(segs) ==
    IF Len(segs) <= 2 THEN segs
    ELSE <<segs[1]>> \o SelectSeq(SubSeq(segs, 2, Len(segs) - 1), LAMBDA x : x # <<>>)
         \o <<Last(segs)>>

\* base_parts = bpath.split('/'); if base_parts[-1] != '': del base_parts[-1]
BaseParts(bp) == IF Last(bp) # <<>> THEN Front(bp) ELSE bp

\* if segments[-1] in ('.', '..'): resolved_path.append('')
ResolvedPath(segments, resolved) ==
    IF Last(segments) \in {<<".">>, <<"..">>} THEN Append(resolved, <<>>) ELSE resolved

\* '/'.join(resolved_path) or '/'
JoinedOrSlash(joined) == IF joined = <<>> THEN <<"/">> ELSE joined

ResolveAll(segments) ==
    JoinedOrSlash(Join(ResolvedPath(segments, ResolveSegs(segments, <<>>))))

\* the path of urljoin's result when url has a path of its own
MergePaths(bpath, path) ==
    ResolveAll(IF path # <<>> /\ path[1] = "/" THEN Split(path)
               ELSE FilterMiddle(BaseParts(Split(bpath)) \o Split(path)))

\* urljoin once base (b) and url (u, its scheme defaulted to b's) are parsed
JoinParsed(url, b, u) ==
    IF u.scheme # b.scheme THEN url
    ELSE IF u.netloc # <<>> THEN urlunparse(u)
    ELSE IF u.path = <<>> /\ u.params = <<>>
         THEN urlunparse([u EXCEPT !.netloc = b.netloc,
                                   !.path = b.path,
                                   !.params = b.params,
                                   !.query = IF u.query = <<>> THEN b.query ELSE u.query])
    ELSE urlunparse([u EXCEPT !.netloc = b.netloc,
                              !.path = MergePaths(b.path, u.path)])

\* urlparse(url, bscheme)
DefaultScheme(u0, bscheme) ==
    IF u0.scheme = "" THEN [u0 EXCEPT !.scheme = bscheme] ELSE u0

JoinWithBase(url, b, u0) == JoinParsed(url, b, DefaultScheme(u0, b.scheme))

\* urljoin(base, url)
urljoin(base, url) ==
    IF base = <<>> THEN url
    ELSE IF url = <<>> THEN base
    ELSE JoinWithBase(url, urlparse(base), urlparse(url))

\* ------------------------------------------------------------------------
\* core/parser.py
\* ------------------------------------------------------------------------
\* An HTML document is [nonempty, title, hrefs]: whether the text has any
\* character, the text of its <title> (NoTitleTag when it has none) and the
\* href values of its <a href=...> tags in document order.
NoTitleTag == "<no title tag>"

EmptyHtml == [nonempty |-> FALSE, title |-> NoTitleTag, hrefs |-> <<>>]

Doc(title, hrefs) == [nonempty |-> TRUE, title |-> title, hrefs |-> hrefs]

\* get_page_title(html_content); None is NoTitleTag
get_page_title(html_content) ==
    IF ~html_content.nonempty THEN NoTitleTag ELSE html_content.title

\* `x if x else "N/A"` applied to a title
TitleOrNA(title) == IF title = NoTitleTag \/ title = "" THEN "N/A" ELSE title

\* the filter without its comparison with the base host
SameHiddenService_AnyOnion(netloc, base_netloc) == EndsWithOnion(netloc)

\* parsed_url.netloc.endswith('.onion') and parsed_url.netloc == base_netloc
SameHiddenService(netloc, base_netloc) ==
    EndsWithOnion(netloc) /\ netloc = base_netloc

\* clean_url = scheme + "://" + netloc + path; the token of a scheme holds
\* its colon, and an empty scheme leaves the colon of "://" on its own
CleanUrl(parsed_url) ==
    <<(IF parsed_url.scheme = "" THEN ":" ELSE parsed_url.scheme), "/", "/">>
        \o parsed_url.netloc \o parsed_url.path

\* what found_links.add(...) receives: clean_url.rstrip('/')
Canonical(clean_url) == RStripSlash(clean_url)

\* lines 30-38 without the filter: the canonical form of an absolute URL
Canonicalize(full_url) == Canonical(CleanUrl(urlparse(full_url)))

\* the filter when it lets http links alone through
LinkOf_HttpOnly(parsed_url, base_netloc) ==
    IF /\ SameHiddenService(parsed_url.netloc, base_netloc)
       /\ parsed_url.scheme = "http:"
       /\ parsed_url.netloc # <<>>
    THEN {Canonical(CleanUrl(parsed_url))}
    ELSE {}

\* the body of `for a_tag in ...` once href is resolved and parsed: what
\* the tag adds to found_links
LinkOf(parsed_url, base_netloc) ==
    IF /\ SameHiddenService(parsed_url.netloc, base_netloc)
       /\ parsed_url.scheme # ""
       /\ parsed_url.netloc # <<>>
    THEN {Canonical(CleanUrl(parsed_url))}
    ELSE {}

\* the set found_links built by extract_onion_links(html_content, base_url)
extract_onion_links(html_content, base_url) ==
    IF ~html_content.nonempty THEN {}
    ELSE UNION { LinkOf(urlparse(urljoin(base_url, html_content.hrefs[i])),
                        urlparse(base_url).netloc) :
                   i \in 1..Len(html_content.hrefs) }

\* list(found_links): the elements of a set in one of the orders its
\* iteration can have (string hashing is seeded per process)
ListOf(S) ==
    { f \in [1..Cardinality(S) -> S] : \A i, j \in 1..Cardinality(S) : f[i] = f[j] => i = j }

\* ------------------------------------------------------------------------
\* The site behind the proxy
\* ------------------------------------------------------------------------
\* What the network gives for one GET: kind "ok" is an HTTP response (its
\* final status after redirects, its text as a document, as robots lines and
\* as the flag "the text contains 'Index of /'"); the other kinds are the
\* exceptions session.get raises.
Answer(status, html, lines, listing) ==
    [kind |-> "ok", status |-> status, html |-> html, lines |-> lines, listing |-> listing]

Fault(kind) ==
    [kind |-> kind, status |-> 0, html |-> EmptyHtml, lines |-> <<>>, listing |-> FALSE]

None == Fault("None")

Page(status, title, hrefs) == Answer(status, Doc(title, hrefs), <<>>, FALSE)

BaseUrl == <<"http:", "/", "/", "test.onion">>
HrefA == <<"/", "a">>
HrefB == <<"/", "b">>
HrefC == <<"/", "c">>
HrefAQuery == <<"/", "a", "?q", "#f">>
HrefOther == <<"http:", "/", "/", "other.onion", "/", "b">>
HrefRoot == <<"/">>

\* the pages of the site, by request path
PageMaps ==
    { \* the base page links to /a twice and to another hidden service
      (<<"/">> :> Page(200, "Home", <<HrefA, HrefA, HrefOther>>)) @@
      (HrefA :> Page(200, "A", <<>>)),
      \* /a and /b both link to /c, /c links back
      (<<"/">> :> Page(200, "Home", <<HrefA, HrefB>>)) @@
      (HrefA :> Page(200, "A", <<HrefC>>)) @@
      (HrefB :> Page(200, "", <<HrefC, HrefRoot>>)) @@
      (HrefC :> Page(200, "C", <<HrefAQuery>>)),
      \* /a cannot be fetched, /b can
      (<<"/">> :> Page(200, "Home", <<HrefA, HrefB>>)) @@
      (HrefA :> Fault("ConnectionError")) @@
      (HrefB :> Page(200, "B", <<>>)),
      \* the base page answers 404
      (<<"/">> :> Page(404, "Not Found", <<HrefA>>)) @@
      (HrefA :> Page(200, "A", <<>>)) }

\* answers without links
Found200 == Answer(200, Doc("Admin", <<>>), <<>>, FALSE)
Listing200 == Answer(200, Doc(NoTitleTag, <<>>), <<>>, TRUE)
NoContent204 == Answer(204, EmptyHtml, <<>>, FALSE)
NotFound404 == Answer(404, Doc("Not Found", <<>>), <<>>, FALSE)

RobotsPath == <<"/", "robots.txt">>

DisallowLine(value) == [disallow |-> TRUE, value |-> value]
OtherLine == [disallow |-> FALSE, value |-> "*"]

\* what /robots.txt answers
RobotsAnswers ==
    { Answer(200, Doc(NoTitleTag, <<>>), <<OtherLine, DisallowLine("/admin"), DisallowLine("/secret")>>, FALSE),
      Answer(200, Doc(NoTitleTag, <<>>), <<OtherLine>>, FALSE),
      Answer(200, Doc(NoTitleTag, <<>>), <<OtherLine, DisallowLine("")>>, FALSE),
      NotFound404,
      Fault("ConnectionError") }

\* config.get("common_paths", []) of the configuration in use
common_paths == << <<"/", "admin", "/">>, <<"/", ".env">> >>

\* what the common paths answer
PathMaps ==
    { (common_paths[1] :> NotFound404) @@ (common_paths[2] :> Found200),
      (common_paths[1] :> Listing200) @@ (common_paths[2] :> Fault("Timeout")),
      (common_paths[1] :> Fault("ConnectionError")) @@ (common_paths[2] :> Listing200),
      (common_paths[1] :> NoContent204) @@ (common_paths[2] :> NotFound404) }

\* a site: request path -> answer
Sites ==
    { pages @@ (RobotsPath :> robots) @@ paths :
        pages \in PageMaps, robots \in RobotsAnswers, paths \in PathMaps }

\* the answer of the network to GET url
ServerAnswer(s, url) ==
    LET u == urlparse(url)
        key == IF u.path = <<>> THEN <<"/">> ELSE u.path
    IN IF u.netloc # <<"test.onion">> THEN Fault("ConnectionError")
       ELSE IF key \in DOMAIN s THEN s[key]
       ELSE NotFound404

\* ------------------------------------------------------------------------
\* core/scanner.py
\* ------------------------------------------------------------------------
\* _fetch_url_tor: raise_for_status() turns a 4xx/5xx response into an
\* HTTPError, and every exception is answered with None
_fetch_url_tor(answer) ==
    IF answer.kind # "ok" THEN None
    ELSE IF answer.status >= 400 THEN None
    ELSE answer

\* `if response:` when None passes it
Truthy_Always(response) == TRUE

\* `if response:` -- None is false, a Response is true when its status < 400
Truthy(response) == response.kind = "ok" /\ response.status < 400

\* the seed entry numbered from depth 1
SeedQueue_DepthOne(url) == << <<RStripSlash(url), 1>> >>

\* the seed entry without the scheme of the target
SeedQueue_NoScheme(url) ==
    << <<urlparse(RStripSlash(url)).netloc \o urlparse(RStripSlash(url)).path, 0>> >>

\* queue = deque([(onion_url.rstrip('/'), 0)])
SeedQueue(url) == << <<RStripSlash(url), 0>> >>

\* the failed initial check without its return: control falls into the loop
ProbeFailPc_FallsThrough == "loop"

\* where the failed initial check leaves scan_onion_site: `return []`
ProbeFailPc == "returned"

\* the initial check when it leaves the visited set empty
ProbeVisited_Nothing(url) == {}

\* the visited set after the successful initial check
ProbeVisited(url) == {RStripSlash(url)}

\* if current_depth > depth: continue
SkipDepth(current_depth, max_depth) == current_depth > max_depth

\* the loop without its visited test
NotVisited_Always(current_url, visited) == TRUE

\* if current_url not in visited_urls
NotVisited(current_url, visited) == current_url \notin visited

\* if current_url != onion_url
NeedsPageInfo(current_url, url) == current_url # url

\* if current_url == onion_url.rstrip('/')
IsBase(current_url, url) == current_url = RStripSlash(url)

\* if current_depth < depth
MayExpand(current_depth, max_depth) == current_depth < max_depth

\* if link not in visited_urls
LinkIsNew(link, visited) == link \notin visited

\* the finding of the initial check under the type of a crawled page
SiteInfo_AsPageInfo(url, response) ==
    [type |-> "Page Info", url |-> url, status_code |-> response.status,
     title |-> TitleOrNA(get_page_title(response.html)),
     description |-> "Initial site information."]

SiteInfo(url, response) ==
    [type |-> "Site Info", url |-> url, status_code |-> response.status,
     title |-> TitleOrNA(get_page_title(response.html)),
     description |-> "Initial site information."]

PageInfo(current_url, response, current_depth) ==
    [type |-> "Page Info", url |-> current_url, status_code |-> response.status,
     title |-> TitleOrNA(get_page_title(response.html)),
     description |-> <<"Page details at depth", current_depth>>]

ExposedPath(full_path_url, path, path_response) ==
    [type |-> "Exposed Path", url |-> full_path_url, status_code |-> path_response.status,
     title |-> IF path_response.html.nonempty THEN get_page_title(path_response.html) ELSE "N/A",
     description |-> IF path_response.listing THEN <<"Directory listing enabled at", path>>
                     ELSE <<"Common path found", path>>]

\* one record of the fetch history: a call of _fetch_url_tor
Fetched(url, kind, response, d) ==
    [url |-> url, kind |-> kind, ok |-> Truthy(response), status |-> response.status, depth |-> d]

\* the body of `for path in common_paths` once the path is fetched; acc is
\* [found, log]: the findings and the fetch history so far
PathResult(path, full_path_url, path_response, acc) ==
    [found |-> IF Truthy(path_response) /\ path_response.status = 200
               THEN Append(acc.found, ExposedPath(full_path_url, path, path_response))
               ELSE acc.found,
     log |-> Append(acc.log, Fetched(full_path_url, "path", path_response, 0))]

ProbePath(s, path, full_path_url, acc) ==
    PathResult(path, full_path_url, _fetch_url_tor(ServerAnswer(s, full_path_url)), acc)

\* for path in common_paths: ...
RECURSIVE ProbePaths(_, _, _, _)
ProbePaths(s, current_url, i, acc) ==
    IF i > Len(common_paths) THEN acc
    ELSE ProbePaths(s, current_url, i + 1,
                    ProbePath(s, common_paths[i], urljoin(current_url, common_paths[i]), acc))

\* for link in links: if link not in visited_urls: queue.append((link, current_depth + 1))
Entries(fresh, d) == [i \in 1..Len(fresh) |-> <<fresh[i], d>>]

NewEntries(links, visited, d) ==
    Entries(SelectSeq(links, LAMBDA l : LinkIsNew(l, visited)), d)

\* ------------------------------------------------------------------------
\* State
\* ------------------------------------------------------------------------
VARIABLES
    pc,            \* where the program is: "cli", "scan", "loop", "returned", "raised", "exit"
    target,        \* the ONION_URL argument as typed
    onion_url,     \* onion_url after scan_command has put a scheme in front
    depth,         \* --depth
    output_format, \* --output
    verbose,       \* --verbose
    site,          \* the site the proxy reaches
    findings,      \* scan_onion_site: findings
    visited_urls,  \* scan_onion_site: visited_urls
    queue,         \* scan_onion_site: queue
    result,        \* what scan_onion_site returned
    exit_status,   \* the exit status of the process, -1 while it runs
    fetchLog,      \* history: every call of _fetch_url_tor, in order
    enqueued,      \* history: every (url, depth) ever put in queue, in order
    probed,        \* history: what the network answered to the initial fetch
    x_html,        \* extract_onion_links: html_content
    x_base,        \* extract_onion_links: base_url
    x_links        \* extract_onion_links: the list returned

vars == <<pc, target, onion_url, depth, output_format, verbose, site, findings,
          visited_urls, queue, result, exit_status, fetchLog, enqueued,
          probed, x_html, x_base, x_links>>

scanVars == <<findings, visited_urls, queue, result, fetchLog, enqueued, probed>>

extractVars == <<x_html, x_base, x_links>>

argVars == <<target, depth, output_format, verbose, site>>

\* the value of probed before the initial fetch
NotProbed == [kind |-> "unasked", status |-> 0]

\* the ONION_URL arguments tried
Targets ==
    { <<"test.onion">>,
      BaseUrl,
      BaseUrl \o <<"/">>,
      <<"https:", "/", "/", "test.onion">>,
      <<"http:", "/", "/", "evil.com">>,
      <<"http:", "/", "/", "evil.com", "/", "x.onion">>,
      BaseUrl \o HrefA }

\* the --depth values tried: typer takes any integer, -1 stands for the negative ones
Depths == -1..MaxDepth

Init ==
    /\ pc = "cli"
    /\ target \in Targets
    /\ onion_url = target
    /\ depth \in Depths
    /\ output_format \in {"human", "json"}
    /\ verbose \in BOOLEAN
    /\ site \in Sites
    /\ findings = <<>>
    /\ visited_urls = {}
    /\ queue = <<>>
    /\ result = <<>>
    /\ exit_status = -1
    /\ fetchLog = <<>>
    /\ enqueued = <<>>
    /\ probed = NotProbed
    /\ x_html = EmptyHtml
    /\ x_base = <<>>
    /\ x_links = <<>>

\* ------------------------------------------------------------------------
\* layerscanner.py: scan_command up to the call of scan_onion_site
\* ------------------------------------------------------------------------
\* if not startswith("http://") and not startswith("https://"): "http://" + onion_url
WithScheme(url) ==
    IF ~StartsWithScheme(url, "http:") /\ ~StartsWithScheme(url, "https:")
    THEN <<"http:", "/", "/">> \o url ELSE url

\* if not endswith(".onion") and not endswith(".onion/"): sys.exit(1)
Rejected(url) == ~EndsWithOnion(url) /\ ~EndsWithOnionSlash(url)

\* --verbose evaluates logging.DEBUG, and layerscanner.py does not import
\* logging: the NameError is outside the try block and ends the process
Validate ==
    /\ pc = "cli"
    /\ IF verbose \/ Rejected(WithScheme(target))
       THEN /\ pc' = "exit"
            /\ exit_status' = 1
            /\ onion_url' = IF verbose THEN target ELSE WithScheme(target)
       ELSE /\ pc' = "scan"
            /\ onion_url' = WithScheme(target)
            /\ UNCHANGED exit_status
    /\ UNCHANGED <<argVars, scanVars, extractVars>>

\* ------------------------------------------------------------------------
\* scan_onion_site
\* ------------------------------------------------------------------------
\* what the initial fetch can meet: the site's answer or a transport fault
ProbeAnswers ==
    { ServerAnswer(site, onion_url), Fault("ConnectionError"), Fault("Timeout"),
      Fault("RequestException") }

\* lines 74-93: the initial check once the fetch has answered
Checked(initial_response) ==
    /\ fetchLog' = Append(fetchLog, Fetched(onion_url, "probe", initial_response, 0))
    /\ IF ~Truthy(initial_response)
       THEN /\ pc' = ProbeFailPc
            /\ findings' = <<>>
            /\ visited_urls' = {}
       ELSE /\ pc' = "loop"
            /\ findings' = <<SiteInfo(onion_url, initial_response)>>
            /\ visited_urls' = ProbeVisited(onion_url)

\* lines 61-93: the initial state and the initial check
InitialCheck ==
    /\ pc = "scan"
    /\ queue' = SeedQueue(onion_url)
    /\ enqueued' = SeedQueue(onion_url)
    /\ \E answer \in ProbeAnswers :
          /\ Checked(_fetch_url_tor(answer))
          /\ probed' = [kind |-> answer.kind, status |-> answer.status]
    /\ result' = <<>>
    /\ UNCHANGED <<argVars, onion_url, exit_status, extractVars>>

\* lines 168-175: the links of the page are queued, in the order list(set) gives
QueueLinks(current_depth, rest, links, acc) ==
    \E order \in ListOf(links) :
        /\ queue' = rest \o NewEntries(order, visited_urls', current_depth + 1)
        /\ enqueued' = enqueued \o NewEntries(order, visited_urls', current_depth + 1)
        /\ findings' = acc.found
        /\ fetchLog' = acc.log
        /\ UNCHANGED pc

\* lines 144-175, for a page that is not the base URL or whose robots.txt
\* did not come back with status 200
AfterRobots(current_url, current_depth, rest, response, base, acc) ==
    QueueLinks(current_depth, rest,
               IF MayExpand(current_depth, depth)
               THEN extract_onion_links(response.html, current_url)
               ELSE {},
               IF base THEN ProbePaths(site, current_url, 1, acc) ELSE acc)

\* lines 121-142 for the base URL.  Line 127 evaluates re.findall, and
\* core/scanner.py does not import re: a robots.txt that comes back with
\* status 200 ends scan_onion_site with a NameError.
Robots(current_url, current_depth, rest, response, robots_url, robots_response, acc) ==
    IF Truthy(robots_response) /\ robots_response.status = 200
    THEN /\ pc' = "raised"
         /\ findings' = acc.found
         /\ queue' = rest
         /\ fetchLog' = Append(acc.log, Fetched(robots_url, "robots", robots_response, 0))
         /\ UNCHANGED enqueued
    ELSE AfterRobots(current_url, current_depth, rest, response, TRUE,
                     [found |-> acc.found,
                      log |-> Append(acc.log, Fetched(robots_url, "robots", robots_response, 0))])

RobotsProbe(current_url, current_depth, rest, response, robots_url, acc) ==
    Robots(current_url, current_depth, rest, response, robots_url,
           _fetch_url_tor(ServerAnswer(site, robots_url)), acc)

\* lines 108-175: the page was fetched
Analyse(current_url, current_depth, rest, response, acc) ==
    IF IsBase(current_url, onion_url)
    THEN RobotsProbe(current_url, current_depth, rest, response,
                     urljoin(current_url, RobotsPath), acc)
    ELSE AfterRobots(current_url, current_depth, rest, response, FALSE, acc)

\* lines 103-177: the URL is new; it is marked, fetched and analysed
Crawl(current_url, current_depth, rest, response) ==
    /\ visited_urls' = visited_urls \cup {current_url}
    /\ IF ~Truthy(response)
       THEN /\ queue' = rest
            /\ fetchLog' = Append(fetchLog, Fetched(current_url, "page", response, current_depth))
            /\ UNCHANGED <<pc, findings, enqueued>>
       ELSE Analyse(current_url, current_depth, rest, response,
                    [found |-> IF NeedsPageInfo(current_url, onion_url)
                               THEN Append(findings, PageInfo(current_url, response, current_depth))
                               ELSE findings,
                     log |-> Append(fetchLog, Fetched(current_url, "page", response, current_depth))])

\* lines 97-177: one turn of `while queue:` for the entry popped
Turn(current_url, current_depth, rest) ==
    IF SkipDepth(current_depth, depth) \/ ~NotVisited(current_url, visited_urls)
    THEN /\ queue' = rest
         /\ UNCHANGED <<pc, findings, visited_urls, fetchLog, enqueued>>
    ELSE Crawl(current_url, current_depth, rest, _fetch_url_tor(ServerAnswer(site, current_url)))

\* line 97: what queue.popleft() leaves in the queue
Popped_Peek(q) == q

Popped(q) == Tail(q)

\* lines 96-177: one turn of `while queue:`
LoopIteration ==
    /\ pc = "loop"
    /\ queue # <<>>
    /\ Turn(Head(queue)[1], Head(queue)[2], Popped(queue))
    /\ UNCHANGED <<argVars, onion_url, result, exit_status, probed, extractVars>>

\* lines 179-180: the queue is empty, return findings
LoopExit ==
    /\ pc = "loop"
    /\ queue = <<>>
    /\ pc' = "returned"
    /\ result' = findings
    /\ UNCHANGED <<argVars, onion_url, exit_status, findings, visited_urls, queue,
                   fetchLog, enqueued, probed, extractVars>>

\* ------------------------------------------------------------------------
\* layerscanner.py: scan_command after the call
\* ------------------------------------------------------------------------
\* a return is rendered and the command ends normally; `except Exception`
\* answers an exception of scan_onion_site with sys.exit(1)
ExitStatusOf(where) == IF where = "raised" THEN 1 ELSE 0

Report ==
    /\ pc \in {"returned", "raised"}
    /\ pc' = "exit"
    /\ exit_status' = ExitStatusOf(pc)
    /\ UNCHANGED <<argVars, onion_url, scanVars, extractVars>>

Next == Validate \/ InitialCheck \/ LoopIteration \/ LoopExit \/ Report

Spec == Init /\ [][Next]_vars

\* scan_command is one sequential run: a step that can be taken is taken
SpecFair == Spec /\ WF_vars(Next)

\* ------------------------------------------------------------------------
\* extract_onion_links on its own
\* ------------------------------------------------------------------------
\* the href values tried
Hrefs ==
    { HrefA, HrefA \o <<"/">>, HrefA \o <<"/", "/">>, HrefAQuery,
      HrefA \o <<";p">>, HrefA \o <<";p", "/">>, HrefOther, HrefRoot,
      <<"b">>, <<"#f">>, <<>>,
      <<"/", "/", "other.onion", "/", "b">>,
      <<"https:", "/", "/", "test.onion", "/", "a">>,
      <<"http:", "/", "/", "evil.com", "/", "a">> }

\* the sequences over S of length n
RECURSIVE SeqsOfLen(_, _)
SeqsOfLen(S, n) ==
    IF n = 0 THEN {<<>>}
    ELSE { Append(t, h) : t \in SeqsOfLen(S, n - 1), h \in S }

\* the documents tried: the empty text and every document of at most MaxLinks links
Htmls ==
    {EmptyHtml} \cup { Doc("T", hrefs) : hrefs \in UNION { SeqsOfLen(Hrefs, n) : n \in 0..MaxLinks } }

\* the base URLs tried
Bases ==
    { BaseUrl, BaseUrl \o <<"/", "x">>, BaseUrl \o <<"/", "x", "/">>,
      <<"https:", "/", "/", "test.onion">>,
      <<"http:", "/", "/", "other.onion">>,
      <<"http:", "/", "/", "evil.com">> }

InitExtract ==
    /\ pc = "extract"
    /\ x_html \in Htmls
    /\ x_base \in Bases
    /\ x_links = <<>>
    /\ target = <<>>
    /\ onion_url = <<>>
    /\ depth = 0
    /\ output_format = "human"
    /\ verbose = FALSE
    /\ site = <<>>
    /\ findings = <<>>
    /\ visited_urls = {}
    /\ queue = <<>>
    /\ result = <<>>
    /\ exit_status = -1
    /\ fetchLog = <<>>
    /\ enqueued = <<>>
    /\ probed = NotProbed

\* links = extract_onion_links(html_content, base_url)
Extract ==
    /\ pc = "extract"
    /\ pc' = "extracted"
    /\ x_links' \in ListOf(extract_onion_links(x_html, x_base))
    /\ UNCHANGED <<argVars, onion_url, exit_status, scanVars, x_html, x_base>>

NextExtract == Extract

SpecExtract == InitExtract /\ [][NextExtract]_vars

\* ------------------------------------------------------------------------
\* Properties
\* ------------------------------------------------------------------------
Indices(seq) == 1..Len(seq)

\* how many elements of seq satisfy Test
Count(seq, Test(_)) == Cardinality({ i \in Indices(seq) : Test(seq[i]) })

\* the initial check has run and failed / succeeded
ProbeFailed == fetchLog # <<>> /\ ~fetchLog[1].ok

ProbeOk == fetchLog # <<>> /\ fetchLog[1].ok

\* the canonical base URL of the crawl
Base == RStripSlash(onion_url)

\* the fetches of the main loop
PageFetches == { i \in Indices(fetchLog) : fetchLog[i].kind = "page" }

\* C1: when the initial fetch of the base URL fails, scan_onion_site returns
\* an empty list of findings and makes no other fetch: the history holds the
\* initial fetch alone, and the function has returned.
C1_FailedProbeStops ==
    ProbeFailed =>
        /\ pc \in {"returned", "exit"}
        /\ findings = <<>>
        /\ result = <<>>
        /\ Len(fetchLog) = 1
        /\ fetchLog[1].kind = "probe"

C1_Witness ==
    /\ pc = "returned"
    /\ ProbeFailed
    /\ fetchLog[1].url = BaseUrl
    /\ result = <<>>

\* what the site serves at the base URL, and the links the extractor finds in it
BasePage == _fetch_url_tor(ServerAnswer(site, Base))

BaseLinks == extract_onion_links(BasePage.html, Base) \ {Base}

\* C2: after a successful initial check with maxDepth >= 1 the main loop
\* fetches the base URL and creates exactly one frontier entry, at depth 1,
\* for every distinct same-site link of the base page (for the base page
\* that links to /a, /a and http://other.onion/b: one entry, for /a).
C2_BaseLinksQueued ==
    (pc = "returned" /\ ProbeOk /\ depth >= 1 /\ Truthy(BasePage)) =>
        /\ \E i \in PageFetches : fetchLog[i].url = Base
        /\ \A l \in BaseLinks : Count(enqueued, LAMBDA e : e = <<l, 1>>) = 1

\* C3: in a crawl whose initial check succeeds and that returns, robots.txt
\* of the base is fetched exactly once and every configured common path,
\* resolved against the base, is fetched exactly once.
C3_ProbesOnce ==
    (pc = "returned" /\ ProbeOk) =>
        /\ Count(fetchLog, LAMBDA f : f.kind = "robots" /\ f.url = urljoin(Base, RobotsPath)) = 1
        /\ \A k \in Indices(common_paths) :
             Count(fetchLog, LAMBDA f : f.kind = "path" /\ f.url = urljoin(Base, common_paths[k])) = 1

FailingLinks == { l \in BaseLinks : ~Truthy(_fetch_url_tor(ServerAnswer(site, l))) }

WorkingLinks == BaseLinks \ FailingLinks

\* C6: when a page linked from the base page cannot be fetched, the crawl
\* still runs to its end, returns no finding for that page, and returns the
\* Page Info findings of the linked pages that could be fetched.
C6_FailureIsolated ==
    (pc = "returned" /\ ProbeOk /\ depth >= 1 /\ Truthy(BasePage) /\ FailingLinks # {}) =>
        /\ queue = <<>>
        /\ \A l \in FailingLinks : Count(result, LAMBDA f : f.url = l) = 0
        /\ \A l \in WorkingLinks :
             Count(result, LAMBDA f : f.type = "Page Info" /\ f.url = l) = 1

\* the non-empty values of the Disallow lines of a robots.txt
DisallowedPaths(lines) ==
    SelectSeq([i \in Indices(lines) |-> IF lines[i].disallow THEN lines[i].value ELSE ""],
              LAMBDA v : v # "")

RobotsFile == ServerAnswer(site, urljoin(Base, RobotsPath))

IsRobotsFinding(f) == f.type = "Robots.txt Disallowed"

\* C7: a crawl whose initial check succeeds ends with exactly one Robots
\* Disallowed finding, listing the non-empty Disallow values, when
\* robots.txt of the base answers 200 with at least one such value, and
\* with none otherwise.
C7_RobotsFinding ==
    (pc \in {"returned", "raised"} /\ ProbeOk) =>
        IF RobotsFile.kind = "ok" /\ RobotsFile.status = 200
           /\ DisallowedPaths(RobotsFile.lines) # <<>>
        THEN /\ Count(findings, IsRobotsFinding) = 1
             /\ \E i \in Indices(findings) :
                  /\ IsRobotsFinding(findings[i])
                  /\ findings[i].description = DisallowedPaths(RobotsFile.lines)
        ELSE Count(findings, IsRobotsFinding) = 0

PathFile(k) == ServerAnswer(site, urljoin(Base, common_paths[k]))

\* C8: a crawl whose initial check succeeds returns, for every configured
\* common path, exactly one Exposed Path finding with the path's resolved
\* URL when the path answers 200, and none when it answers another status
\* or cannot be fetched.
C8_ExposedPaths ==
    (pc = "returned" /\ ProbeOk) =>
        \A k \in Indices(common_paths) :
            Count(result, LAMBDA f : f.type = "Exposed Path" /\ f.url = urljoin(Base, common_paths[k]))
              = IF PathFile(k).kind = "ok" /\ PathFile(k).status = 200 THEN 1 ELSE 0

\* C9: when the initial fetch of the base URL fails, the program ends with
\* a non-zero exit status.
C9_FailedProbeExitsNonZero ==
    (pc = "exit" /\ ProbeFailed) => exit_status # 0

\* a URL in canonical form: scheme, host and path only, no trailing slash
IsCanonical(u) ==
    /\ u # <<>>
    /\ Last(u) # "/"
    /\ urlparse(u).query = <<>>
    /\ urlparse(u).fragment = <<>>
    /\ urlparse(u).scheme # ""
    /\ urlparse(u).netloc # <<>>

\* C10: every URL extract_onion_links returns has the host of base_url, a
\* host that ends with .onion, and canonical form; no URL is returned twice;
\* nothing is returned for a base that is no .onion host or for empty HTML.
C10_ExtractedLinks ==
    pc = "extracted" =>
        /\ \A i \in Indices(x_links) :
             /\ urlparse(x_links[i]).netloc = urlparse(x_base).netloc
             /\ EndsWithOnion(urlparse(x_links[i]).netloc)
             /\ IsCanonical(x_links[i])
        /\ \A i, j \in Indices(x_links) : x_links[i] = x_links[j] => i = j
        /\ ~x_html.nonempty => x_links = <<>>

C10_Witness ==
    /\ pc = "extracted"
    /\ x_base = BaseUrl \o <<"/", "x">>
    /\ x_html = Doc("T", <<HrefAQuery, HrefOther>>)
    /\ x_links = <<BaseUrl \o HrefA>>

\* the absolute URL the i-th href of the document resolves to, parsed
Resolved(i) == urlparse(urljoin(x_base, x_html.hrefs[i]))

\* C11 as the specification states it: every link extract_onion_links
\* returns has the scheme of base_url, so a link to the same host under
\* another scheme is dropped.
C11_OtherSchemeDropped ==
    pc = "extracted" =>
        \A i \in Indices(x_links) : urlparse(x_links[i]).scheme = urlparse(x_base).scheme

\* C11: extract_onion_links compares hosts alone: every href that resolves
\* to the .onion host of base_url is returned in canonical form under its
\* own scheme, whether or not that is the scheme of base_url.
C11_SameHostKept ==
    pc = "extracted" =>
        \A i \in Indices(x_html.hrefs) :
            (Resolved(i).netloc = urlparse(x_base).netloc /\ EndsWithOnion(Resolved(i).netloc))
                => \E j \in Indices(x_links) :
                       /\ x_links[j] = Canonical(CleanUrl(Resolved(i)))
                       /\ urlparse(x_links[j]).scheme = Resolved(i).scheme

C11_Witness ==
    /\ pc = "extracted"
    /\ x_base = BaseUrl \o <<"/", "x">>
    /\ x_html = Doc("T", << <<"https:", "/", "/", "test.onion", "/", "a">> >>)
    /\ x_links = << <<"https:", "/", "/", "test.onion", "/", "a">> >>

\* the network answered the initial fetch with an HTTP error status
ProbedHttpError == probed.kind = "ok" /\ probed.status >= 400

\* C12 as the specification states it: a 4xx/5xx answer reaches the caller
\* as a response with its status code, and the initial check passes on it.
C12_HttpErrorIsSuccess ==
    ProbedHttpError =>
        /\ ProbeOk
        /\ fetchLog[1].status = probed.status

\* C13: every finding was built from a fetch that came back with a response:
\* the Site Info finding from the response to the initial fetch, any other
\* finding from a later fetch of its URL that returned the status the
\* finding carries; no finding exists whose fetch returned None.
C13_FindingsFromResponses ==
    \A i \in Indices(findings) :
        IF findings[i].type = "Site Info"
        THEN /\ probed.kind = "ok"
             /\ findings[i].url = onion_url
             /\ findings[i].status_code = probed.status
        ELSE \E k \in Indices(fetchLog) :
                 /\ fetchLog[k].kind # "probe"
                 /\ fetchLog[k].url = findings[i].url
                 /\ fetchLog[k].ok
                 /\ fetchLog[k].status = findings[i].status_code

C13_Witness ==
    /\ pc = "returned"
    /\ probed = [kind |-> "ok", status |-> 200]
    /\ Len(result) = 1
    /\ result[1].type = "Site Info"
    /\ result[1].status_code = 200

\* the host of the target once scan_command has put a scheme in front
TargetHost == urlparse(WithScheme(target)).netloc

\* C14: scan_onion_site is called, and a fetch is made, only for a target
\* whose host ends with .onion; for any other target the command exits with
\* status 1 and no fetch in the history.
C14_OnlyOnionHostsScanned ==
    /\ (pc \in {"scan", "loop", "returned", "raised"} \/ fetchLog # <<>>)
           => EndsWithOnion(TargetHost)
    /\ (pc = "exit" /\ ~EndsWithOnion(TargetHost))
           => (exit_status = 1 /\ fetchLog = <<>>)

\* C15: the canonical form is a fixed point: every URL extract_onion_links
\* returns, canonicalized once more, is itself.
C15_Idempotent ==
    pc = "extracted" =>
        \A j \in Indices(x_links) : Canonicalize(x_links[j]) = x_links[j]

\* the site where /a and /b both link to /c is behind the proxy
DiamondSite ==
    /\ BaseLinks = {Base \o HrefA, Base \o HrefB}
    /\ Base \o HrefC \in extract_onion_links(ServerAnswer(site, Base \o HrefA).html, Base \o HrefA)
    /\ Base \o HrefC \in extract_onion_links(ServerAnswer(site, Base \o HrefB).html, Base \o HrefB)

PageInfosFor(url) ==
    { i \in Indices(findings) : findings[i].type = "Page Info" /\ findings[i].url = url }

IsPrefix(s, t) == Len(s) <= Len(t) /\ SubSeq(t, 1, Len(s)) = s

\* the list scan_onion_site returned after a successful initial check
ReturnedFindings == pc \in {"returned", "exit"} /\ ProbeOk

\* C18: the list returned after a successful initial check starts with the
\* Site Info finding for the target URL and holds no other Site Info
\* finding; and no step removes or changes a finding already in the list.
C18_SiteInfoFirst ==
    /\ [](ReturnedFindings =>
            /\ result # <<>>
            /\ result[1].type = "Site Info"
            /\ result[1].url = onion_url
            /\ Count(result, LAMBDA f : f.type = "Site Info") = 1)
    /\ [][IsPrefix(findings, findings')]_vars

C18_Witness ==
    /\ pc = "returned"
    /\ ProbeOk
    /\ onion_url = BaseUrl \o <<"/">>
    /\ result = findings
    /\ result[1].type = "Site Info"
    /\ result[1].url = BaseUrl \o <<"/">>

\* no fetch of the same kind is made twice for one URL
NoFetchRetried ==
    \A i, j \in Indices(fetchLog) :
        (fetchLog[i].url = fetchLog[j].url /\ fetchLog[i].kind = fetchLog[j].kind) => i = j

\* C20: once the main loop is entered, whatever the site, --depth and the
\* failures met, scan_onion_site reaches its return with the queue empty;
\* and it never repeats a fetch.
C20_Terminates ==
    /\ (pc = "loop") ~> (pc = "returned" /\ queue = <<>> /\ result = findings)
    /\ []NoFetchRetried

C20_Witness ==
    /\ pc = "returned"
    /\ ProbeOk
    /\ queue = <<>>
    /\ depth = 1
    /\ FailingLinks # {}
    /\ Len(fetchLog) = 1

\* the base page links to another hidden service
LinksElsewhere ==
    \E i \in Indices(BasePage.html.hrefs) :
        urlparse(urljoin(Base, BasePage.html.hrefs[i])).netloc = <<"other.onion">>

====
